---- MODULE Spec2Model ----
(***************************************************************************)
(* A model of discord_utils (src/src/lib.rs): MsgBunchBuilder, which packs *)
(* text into messages of at most MSG_LIMIT characters, and split_trim.     *)
(*                                                                         *)
(* A string is a sequence of characters (Unicode scalar values); each      *)
(* character has a UTF-8 width, so that byte indices (char_indices,        *)
(* is_char_boundary, split_off, slicing) and character counts              *)
(* (chars().count()) are different things, as in the code.                 *)
(***************************************************************************)
EXTENDS Integers, Sequences, FiniteSets, TLC

(***************************************************************************)
(* Program constant, scaled: the code has MSG_LIMIT = 2000.                *)
(***************************************************************************)
MSG_LIMIT == 2

(***************************************************************************)
(* Bounds of the model.                                                    *)
(***************************************************************************)
\* the longest text one add_string call is given
MaxAdd == 3
\* the most characters given to the builder in all
MaxTotal == 5
\* the longest text one add_lines call is given
MaxLinesLen == 2
\* the same, for texts with carriage returns
MaxCrLfLen == 4
\* the longest string split_trim is given
MaxTrimLen == 5

(***************************************************************************)
(* Characters.  "." stands for the eight ASCII characters the default      *)
(* predicate of end_section accepts, "e" for a two-byte character (U+00E9) *)
(* that it rejects; the line feed and the carriage return, which it        *)
(* rejects too, are in the texts given to add_lines.  split_trim is given  *)
(* strings of " " and "nbsp" (U+00A0, two bytes), which are whitespace,    *)
(* and of "a" and "e", which are not.                                      *)
(***************************************************************************)
Chars == {".", "e"}

\* add_lines is given texts with line feeds, and with carriage returns
LineChars == Chars \cup {"\n"}
CrLfChars == {".", "\n", "\r"}

TrimChars == {" ", "nbsp", "a", "e"}

\* char::is_whitespace
is_whitespace(c) == c \in {" ", "nbsp", "\n", "\r"}

len_utf8(c) == IF c \in {"e", "nbsp"} THEN 2 ELSE 1

Min(a, b) == IF a < b THEN a ELSE b

StrUpTo(alphabet, n) == UNION {[1..k -> alphabet] : k \in 0..n}

\* str::len(): the length in bytes
RECURSIVE ByteLen(_)
ByteLen(s) == IF s = <<>> THEN 0 ELSE len_utf8(Head(s)) + ByteLen(Tail(s))

\* the byte index char_indices() pairs with the k-th character (k = 1, 2, ..)
ByteIndex(s, k) == ByteLen(SubSeq(s, 1, k - 1))

\* str::is_char_boundary
is_char_boundary(s, index) ==
    \/ index = ByteLen(s)
    \/ \E k \in 1..Len(s) : ByteIndex(s, k) = index

\* the number of characters of s that lie before the byte index (a boundary)
CharsBefore(s, index) == Cardinality({k \in 1..Len(s) : ByteIndex(s, k) < index})

\* &s[..index] and &s[index..]
SliceTo(s, index) == SubSeq(s, 1, CharsBefore(s, index))
SliceFrom(s, index) == SubSeq(s, CharsBefore(s, index) + 1, Len(s))

RECURSIVE Concat(_)
Concat(ms) == IF ms = <<>> THEN <<>> ELSE Head(ms) \o Concat(Tail(ms))

Last(ms) == ms[Len(ms)]

\* mutant: first_mut() for last_mut()
MutSetLastFirst(ms, m) == [ms EXCEPT ![1] = m]

SetLast(ms, m) == [ms EXCEPT ![Len(ms)] = m]

(***************************************************************************)
(* The builder as a value: the fields of MsgBunchBuilder, whether the call *)
(* panicked ("no", or how) and how often it called the split predicate.    *)
(***************************************************************************)
None == [some |-> FALSE, text |-> <<>>, size |-> 0]
Some(t, n) == [some |-> TRUE, text |-> t, size |-> n]

Builder(ms, n, sec, p, c) ==
    [messages |-> ms, chars_num |-> n, no_split_section |-> sec,
     panicked |-> p, f_calls |-> c]

\* MsgBunchBuilder::new, with MsgBunch::new
new == Builder(<<<<>>>>, 0, None, "no", 0)

\* the call panics: Option::unwrap on None ("unwrap"), debug_assert_eq!
\* ("assert"), or an arithmetic overflow in a debug build ("overflow")
Panic(b, how) == [b EXCEPT !.panicked = how]
Panicked(b) == b.panicked # "no"


(***************************************************************************)
(* add_string                                                              *)
(***************************************************************************)
\* line 109: the text does not fit in the open message, by the counter
Overflows(b, n) == b.chars_num + n > MSG_LIMIT

\* line 113, MSG_LIMIT-cur_msg_size: the usize subtraction overflows when the
\* open message is longer than MSG_LIMIT; a debug build panics there, a
\* release build wraps around to a count no string reaches, so nth is None
SubOverflows(cur_msg_size) == cur_msg_size > MSG_LIMIT
NthCount(cur_msg_size) == MSG_LIMIT - cur_msg_size
NthIsNone(cur_msg_size, n) ==
    \/ SubOverflows(cur_msg_size)
    \/ NthCount(cur_msg_size) >= n

\* mutant: the number of characters that fit is taken for a byte index
MutSplitPointBytes(cur_msg_size, string_to_add) ==
    [s |-> MSG_LIMIT + 1, index |-> NthCount(cur_msg_size)]

\* line 113: (cur_msg_size+1..).zip(char_indices()).nth(MSG_LIMIT-cur_msg_size)
\* is the pair of the range's and of char_indices' element number
\* MSG_LIMIT-cur_msg_size, counted from 0
SplitPoint(cur_msg_size, string_to_add) ==
    LET k == NthCount(cur_msg_size)
    IN  [s |-> cur_msg_size + 1 + k, index |-> ByteIndex(string_to_add, k + 1)]

\* lines 110-122: the branch that splits the text
add_string_split(b, string_to_add, debug) ==
    LET cur_msg == Last(b.messages)
        cur_msg_size == Len(cur_msg)
    IN  IF debug /\ SubOverflows(cur_msg_size)
        THEN Panic(b, "overflow")
        ELSE IF NthIsNone(cur_msg_size, Len(string_to_add))
        THEN Panic(b, "unwrap")
        ELSE LET sp == SplitPoint(cur_msg_size, string_to_add)
                 new_cur_msg == SliceFrom(string_to_add, sp.index)
             IN  IF debug /\ sp.s # MSG_LIMIT
                 THEN Panic(b, "assert")
                 ELSE [b EXCEPT
                         !.messages = Append(
                             SetLast(b.messages,
                                     cur_msg \o SliceTo(string_to_add, sp.index)),
                             new_cur_msg),
                         !.chars_num = Len(new_cur_msg)]

\* mutant: the section's size grows by the text's bytes
MutAddStringSectionBytes(b, string_to_add) ==
    [b EXCEPT !.no_split_section =
        Some(b.no_split_section.text \o string_to_add,
             b.no_split_section.size + ByteLen(string_to_add))]

\* lines 106-108: a section is open
add_string_section(b, string_to_add) ==
    [b EXCEPT !.no_split_section =
        Some(b.no_split_section.text \o string_to_add,
             b.no_split_section.size + Len(string_to_add))]

\* mutant: the text is pushed and not counted
MutAddStringFitNoCount(b, string_to_add) ==
    [b EXCEPT !.messages = SetLast(b.messages, Last(b.messages) \o string_to_add)]

\* lines 123-126: the text fits
add_string_fit(b, string_to_add) ==
    [b EXCEPT !.messages = SetLast(b.messages, Last(b.messages) \o string_to_add),
              !.chars_num = b.chars_num + Len(string_to_add)]

add_string(b, string_to_add, debug) ==
    IF Panicked(b) THEN b
    ELSE IF b.no_split_section.some THEN add_string_section(b, string_to_add)
    ELSE IF Overflows(b, Len(string_to_add))
         THEN add_string_split(b, string_to_add, debug)
         ELSE add_string_fit(b, string_to_add)

(***************************************************************************)
(* begin_section, end_section_with, end_section                            *)
(***************************************************************************)
\* mutant: a new section is begun whether or not one is open
MutBeginSectionAnew(b) ==
    IF Panicked(b) THEN b ELSE [b EXCEPT !.no_split_section = Some(<<>>, 0)]

begin_section(b) ==
    IF Panicked(b) THEN b
    ELSE IF ~b.no_split_section.some
         THEN [b EXCEPT !.no_split_section = Some(<<>>, 0)]
         ELSE b

\* mutant: the scan skips one character too few
MutScanWindow(no_split_section_size) ==
    [i \in 1..MSG_LIMIT |-> MSG_LIMIT + 2 - i]

\* line 177: char_indices().rev().skip(size-MSG_LIMIT).take(MSG_LIMIT), as the
\* positions (1, 2, ..) of the characters it visits, in the order of the visit
ScanWindow(no_split_section_size) ==
    LET skipped == no_split_section_size - MSG_LIMIT
        left == no_split_section_size - skipped
        taken == IF left < MSG_LIMIT THEN left ELSE MSG_LIMIT
    IN  [i \in 1..taken |-> no_split_section_size + 1 - (skipped + i)]

\* lines 180-182
RECURSIVE SkipToBoundary(_, _)
SkipToBoundary(s, index) ==
    IF is_char_boundary(s, index) THEN index ELSE SkipToBoundary(s, index + 1)

\* mutant: the index is advanced past a second character
MutCutIndexTwice(s, pos) ==
    SkipToBoundary(s, SkipToBoundary(s, ByteIndex(s, pos) + 1) + 1)

\* lines 177-182: the byte index of the cut
CutIndex(s, pos) == SkipToBoundary(s, ByteIndex(s, pos) + 1)

\* mutant: the loop stops one character too early
MutMustSplit(no_split_section_size) == no_split_section_size > MSG_LIMIT + 1

\* line 175
MustSplit(no_split_section_size) == no_split_section_size > MSG_LIMIT

\* lines 171-191: the splitting loop and the final push; f is the set of the
\* characters the predicate accepts
RECURSIVE SplitLoop(_, _, _)
SplitLoop(b, no_split_section, f) ==
    IF MustSplit(Len(no_split_section))
    THEN LET window == ScanWindow(Len(no_split_section))
             hits == {i \in DOMAIN window : no_split_section[window[i]] \in f}
         IN  IF hits = {}
             THEN Panic([b EXCEPT !.f_calls = b.f_calls + Len(window)], "unwrap")
             ELSE LET i0 == CHOOSE i \in hits : \A j \in hits : i <= j
                      index == CutIndex(no_split_section, window[i0])
                      new_cur_msg == SliceFrom(no_split_section, index)
                      first_section == SliceTo(no_split_section, index)
                  IN  SplitLoop([b EXCEPT
                                   !.messages = Append(b.messages, first_section),
                                   !.f_calls = b.f_calls + i0],
                                new_cur_msg, f)
    ELSE [b EXCEPT !.messages = Append(b.messages, no_split_section)]

\* mutant: the section is counted and never pushed
MutEndSectionFitNoPush(b, no_split_section, size) ==
    [b EXCEPT !.chars_num = b.chars_num + size]

\* mutant: first_mut() for last_mut()
MutEndSectionFitFirst(b, no_split_section, size) ==
    [b EXCEPT !.chars_num = b.chars_num + size,
              !.messages = [b.messages EXCEPT ![1] = b.messages[1] \o no_split_section]]

\* lines 192-195: the section fits in the open message
end_section_fit(b, no_split_section, size) ==
    [b EXCEPT !.chars_num = b.chars_num + size,
              !.messages = SetLast(b.messages, Last(b.messages) \o no_split_section)]

\* mutant: a section of at most MSG_LIMIT characters is pushed onto the open
\* message
MutEndSectionSplitOnto(b, no_split_section, size, f) ==
    IF MustSplit(Len(no_split_section))
    THEN SplitLoop([b EXCEPT !.chars_num = size], no_split_section, f)
    ELSE [b EXCEPT !.chars_num = size,
                   !.messages = SetLast(b.messages, Last(b.messages) \o no_split_section)]

\* lines 168-191: the section gets messages of its own
end_section_split(b, no_split_section, size, f) ==
    SplitLoop([b EXCEPT !.chars_num = size], no_split_section, f)

\* mutant: no section is taken for an empty one (take().unwrap_or_default())
MutEndSectionWithDefault(b, f) ==
    IF Panicked(b) THEN b
    ELSE LET taken == [b EXCEPT !.no_split_section = None]
             sec == b.no_split_section
         IN  IF Overflows(b, sec.size)
             THEN end_section_split(taken, sec.text, sec.size, f)
             ELSE end_section_fit(taken, sec.text, sec.size)

end_section_with(b, f) ==
    IF Panicked(b) THEN b
    ELSE IF b.no_split_section.some
         THEN LET taken == [b EXCEPT !.no_split_section = None]
                  sec == b.no_split_section
              IN  IF Overflows(b, sec.size)
                  THEN end_section_split(taken, sec.text, sec.size, f)
                  ELSE end_section_fit(taken, sec.text, sec.size)
         ELSE b

\* lines 153-156: the default predicate
DefaultPredicate == {"."}

end_section(b) == end_section_with(b, DefaultPredicate)

(***************************************************************************)
(* add_lines, build                                                        *)
(***************************************************************************)
FirstLF(s) ==
    IF \E k \in 1..Len(s) : s[k] = "\n"
    THEN CHOOSE k \in 1..Len(s) : s[k] = "\n" /\ \A j \in 1..(k - 1) : s[j] # "\n"
    ELSE 0

StripCR(s) ==
    IF s # <<>> /\ s[Len(s)] = "\r" THEN SubSeq(s, 1, Len(s) - 1) ELSE s

\* str::lines: the text is cut after every line feed; a line loses its line
\* feed and then a carriage return before it; a last line without a line feed
\* is yielded as it is
RECURSIVE Lines(_)
Lines(s) ==
    IF s = <<>> THEN <<>>
    ELSE LET k == FirstLF(s)
         IN  IF k = 0 THEN <<s>>
             ELSE <<StripCR(SubSeq(s, 1, k - 1))>> \o Lines(SubSeq(s, k + 1, Len(s)))

\* mutant: the line is added outside a section
MutAddLineNoSection(b, line, debug) ==
    add_string(add_string(b, line, debug), <<"\n">>, debug)

\* line 203
add_line(b, line, debug) ==
    end_section(add_string(add_string(begin_section(b), line, debug), <<"\n">>, debug))

RECURSIVE add_lines_from(_, _, _)
add_lines_from(b, ls, debug) ==
    IF ls = <<>> THEN b
    ELSE add_lines_from(add_line(b, Head(ls), debug), Tail(ls), debug)

add_lines(b, lines, debug) == add_lines_from(b, Lines(lines), debug)

\* mutant: build() returns inner as it is
MutBuildInner(b) == b

build(b) == end_section(b)

(***************************************************************************)
(* split_trim                                                              *)
(***************************************************************************)
\* str::split_at: the two slices, or a panic when mid is past the end or
\* inside a character
split_at(s, mid) ==
    IF mid <= ByteLen(s) /\ is_char_boundary(s, mid)
    THEN [ok |-> TRUE, left |-> SliceTo(s, mid), right |-> SliceFrom(s, mid)]
    ELSE [ok |-> FALSE, left |-> <<>>, right |-> <<>>]

\* the places of the characters of s that are not whitespace
NonWhitespace(s) == {k \in 1..Len(s) : ~is_whitespace(s[k])}

\* mutant: one byte is counted for the last character that is not whitespace
MutEndTrimIndex(s) ==
    IF NonWhitespace(s) = {} THEN 0
    ELSE ByteIndex(s, CHOOSE k \in NonWhitespace(s) :
                          \A j \in NonWhitespace(s) : j <= k) + 1

\* lines 223-225: rfind gives the byte index of the last character that is
\* not whitespace; its width is added
end_trim_index(s) ==
    IF NonWhitespace(s) = {} THEN 0
    ELSE LET k == CHOOSE k \in NonWhitespace(s) : \A j \in NonWhitespace(s) : j <= k
             i == ByteIndex(s, k)
         IN  i + len_utf8(Head(SliceFrom(s, i)))

\* mutant: the characters before the first that is not whitespace are
\* counted, not their bytes
MutFrontTrimIndex(start, end_index) ==
    IF NonWhitespace(start) = {} THEN end_index
    ELSE (CHOOSE k \in NonWhitespace(start) : \A j \in NonWhitespace(start) : k <= j) - 1

\* line 229: find gives the byte index of the first character that is not
\* whitespace
front_trim_index(start, end_index) ==
    IF NonWhitespace(start) = {} THEN end_index
    ELSE ByteIndex(start, CHOOSE k \in NonWhitespace(start) :
                              \A j \in NonWhitespace(start) : k <= j)

\* lines 222-234
split_trim(s) ==
    LET a == split_at(s, end_trim_index(s))
        b == split_at(a.left, front_trim_index(a.left, end_trim_index(s)))
    IN  [panicked |-> ~(a.ok /\ b.ok),
         front_trim |-> b.left, text |-> b.right, end_trim |-> a.right]

(***************************************************************************)
(* The state: the builder's fields; whether the build has debug assertions *)
(* (cfg(debug_assertions): a debug or a release build); where the caller   *)
(* is: "running", "panicked" (a call panicked: the fields are as the       *)
(* unwinding left them) or "built" (build() consumed the builder and       *)
(* messages is the returned MsgBunch).  History, for the properties:       *)
(* added, the texts given to add_string so far, concatenated; oversize,    *)
(* whether the caller gave add_string a text longer than MSG_LIMIT; last,  *)
(* the last call.  trim is the caller of split_trim: the string s it gives, *)
(* where it is (pc) and what it got.                                       *)
(***************************************************************************)
VARIABLES messages, chars_num, no_split_section, debug_assertions, status,
          added, oversize, last, trim

vars == <<messages, chars_num, no_split_section, debug_assertions, status,
          added, oversize, last, trim>>

NoTrim == [pc |-> "none", s |-> <<>>, got |-> split_trim(<<>>)]

Self == Builder(messages, chars_num, no_split_section, "no", 0)

Predicates == SUBSET Chars

\* a call: its name, the predicate it was given, the size of the section it
\* found open (-1: it found none), how often it called the predicate, how many
\* messages it pushed, whether it panicked, and the text add_lines was given
Call(op, f, taken, b) ==
    [op |-> op, f |-> f, taken |-> taken, f_calls |-> b.f_calls,
     pushed |-> Len(b.messages) - Len(messages), panicked |-> b.panicked,
     lines |-> <<>>]

NoneTaken == 0 - 1
Taken == IF no_split_section.some THEN no_split_section.size ELSE NoneTaken

Init ==
    /\ messages = new.messages
    /\ chars_num = new.chars_num
    /\ no_split_section = new.no_split_section
    /\ debug_assertions \in BOOLEAN
    /\ status = "running"
    /\ added = <<>>
    /\ oversize = FALSE
    /\ last = [op |-> "new", f |-> {}, taken |-> NoneTaken, f_calls |-> 0,
               pushed |-> 0, panicked |-> "no", lines |-> <<>>]
    /\ trim = NoTrim

\* the builder after a call, which returned (then to) or panicked
Becomes(b, then) ==
    /\ messages' = b.messages
    /\ chars_num' = b.chars_num
    /\ no_split_section' = b.no_split_section
    /\ status' = IF Panicked(b) THEN "panicked" ELSE then
    /\ UNCHANGED <<debug_assertions, trim>>

AddString ==
    /\ status = "running"
    /\ \E s \in StrUpTo(Chars, Min(MaxAdd, MaxTotal - Len(added))) :
          LET b == add_string(Self, s, debug_assertions)
          IN  /\ Becomes(b, "running")
              /\ added' = added \o s
              /\ oversize' = (oversize \/ Len(s) > MSG_LIMIT)
              /\ last' = Call("add_string", {}, Taken, b)

BeginSection ==
    /\ status = "running"
    /\ LET b == begin_section(Self)
       IN  /\ Becomes(b, "running")
           /\ last' = Call("begin_section", {}, NoneTaken, b)
    /\ UNCHANGED <<added, oversize>>

EndSection ==
    /\ status = "running"
    /\ LET b == end_section(Self)
       IN  /\ Becomes(b, "running")
           /\ last' = Call("end_section", DefaultPredicate, Taken, b)
    /\ UNCHANGED <<added, oversize>>

EndSectionWith ==
    /\ status = "running"
    /\ \E f \in Predicates :
          LET b == end_section_with(Self, f)
          IN  /\ Becomes(b, "running")
              /\ last' = Call("end_section_with", f, Taken, b)
    /\ UNCHANGED <<added, oversize>>

\* the texts add_lines gives to add_string, concatenated
RECURSIVE LinesGiven(_)
LinesGiven(ls) ==
    IF ls = <<>> THEN <<>> ELSE Head(ls) \o <<"\n">> \o LinesGiven(Tail(ls))

AddLinesOf(texts) ==
    /\ status = "running"
    /\ \E lines \in texts :
          /\ Len(added) + Len(LinesGiven(Lines(lines))) <= MaxTotal
          /\ LET b == add_lines(Self, lines, debug_assertions)
             IN  /\ Becomes(b, "running")
                 /\ last' = [Call("add_lines", DefaultPredicate, NoneTaken, b)
                               EXCEPT !.lines = lines]
          /\ added' = added \o LinesGiven(Lines(lines))
    /\ UNCHANGED oversize

AddLines ==
    AddLinesOf(StrUpTo(LineChars, Min(MaxLinesLen, MaxTotal - Len(added))))

\* add_lines, given a text that may have carriage returns (one more
\* character than is left of MaxTotal: str::lines may drop one)
AddLinesCrLf ==
    AddLinesOf(StrUpTo(CrLfChars, Min(MaxCrLfLen, MaxTotal + 1 - Len(added))))

Build ==
    /\ status = "running"
    /\ LET b == build(Self)
       IN  /\ Becomes(b, "built")
           /\ last' = Call("build", DefaultPredicate, Taken, b)
    /\ UNCHANGED <<added, oversize>>

Next ==
    \/ AddString
    \/ BeginSection
    \/ EndSection
    \/ EndSectionWith
    \/ AddLines
    \/ Build

Spec == Init /\ [][Next]_vars

\* the builder given texts with carriage returns too
NextCrLf ==
    \/ AddString
    \/ BeginSection
    \/ EndSection
    \/ AddLinesCrLf
    \/ Build

SpecCrLf == Init /\ [][NextCrLf]_vars

\* split_trim, called with any string
InitTrim ==
    /\ messages = new.messages
    /\ chars_num = new.chars_num
    /\ no_split_section = new.no_split_section
    /\ debug_assertions \in BOOLEAN
    /\ status = "running"
    /\ added = <<>>
    /\ oversize = FALSE
    /\ last = [op |-> "new", f |-> {}, taken |-> NoneTaken, f_calls |-> 0,
               pushed |-> 0, panicked |-> "no", lines |-> <<>>]
    /\ \E s \in StrUpTo(TrimChars, MaxTrimLen) :
          trim = [pc |-> "call", s |-> s, got |-> split_trim(<<>>)]

SplitTrim ==
    /\ trim.pc = "call"
    /\ LET got == split_trim(trim.s)
       IN  trim' = [trim EXCEPT !.pc = IF got.panicked THEN "panicked" ELSE "returned",
                                !.got = got]
    /\ UNCHANGED <<messages, chars_num, no_split_section, debug_assertions,
                   status, added, oversize, last>>

NextTrim == SplitTrim

SpecTrim == InitTrim /\ [][NextTrim]_vars

(***************************************************************************)
(* Properties                                                              *)
(***************************************************************************)
Returned == status = "built"

\* C1: when no call of add_string by the caller was given more than MSG_LIMIT
\* characters, every message of the MsgBunch that build() returns has at
\* most MSG_LIMIT characters
C1_LengthInvariant ==
    (Returned /\ ~oversize) =>
        \A i \in 1..Len(messages) : Len(messages[i]) <= MSG_LIMIT

\* a returned MsgBunch of three messages or more, made without an oversized
\* add_string: texts and sections were split on the way
C1_Witness ==
    /\ Returned
    /\ ~oversize
    /\ Len(messages) >= 3
    /\ Len(Concat(messages)) > 2 * MSG_LIMIT

\* C2: the messages of the MsgBunch that build() returns, concatenated, are
\* the texts given to add_string, concatenated in the order of the calls
C2_ConcatenationFidelity ==
    Returned => Concat(messages) = added

\* build() closed a section that had to be split, after a text was split
C2_Witness ==
    /\ Returned
    /\ last.f_calls > 0
    /\ Len(messages) >= 3
    /\ Len(messages[1]) = MSG_LIMIT

\* the text t lies in one message of ms, where the characters start+1 ..
\* start+Len(t) of the concatenated messages are
InOneMessage(ms, start, t) ==
    \E i \in 1..Len(ms) :
        \E o \in 0..(Len(ms[i]) - Len(t)) :
            /\ Len(Concat(SubSeq(ms, 1, i - 1))) + o = start
            /\ SubSeq(ms[i], o + 1, o + Len(t)) = t

\* no message is touched but the last, which only grows at its end, and
\* messages are only appended
GrowsAtEnd ==
    /\ Len(messages') >= Len(messages)
    /\ \A i \in 1..(Len(messages) - 1) : messages'[i] = messages[i]
    /\ SubSeq(messages'[Len(messages)], 1, Len(Last(messages))) = Last(messages)

Closes == last'.op \in {"end_section", "end_section_with", "build"}

\* C3: when a call closes a section of at most MSG_LIMIT characters while the
\* open message has room for them all, the section's text lies in one message,
\* after all the text that was there; and no later call moves it: messages
\* other than the last never change and the last only grows at its end
C3_SectionAtomicity ==
    [][/\ (/\ Closes
           /\ status' # "panicked"
           /\ no_split_section.some
           /\ Len(no_split_section.text) <= MSG_LIMIT
           /\ Len(Last(messages)) + Len(no_split_section.text) <= MSG_LIMIT)
          => /\ InOneMessage(messages', Len(Concat(messages)), no_split_section.text)
             /\ Concat(messages') = Concat(messages) \o no_split_section.text
       /\ GrowsAtEnd]_vars

\* end_section has put a section of MSG_LIMIT characters in a message that is
\* not the first
C3_Witness ==
    /\ last.op = "end_section"
    /\ last.taken = MSG_LIMIT
    /\ status = "running"
    /\ Len(messages) >= 2
    /\ Len(Last(messages)) = MSG_LIMIT

\* the closing call takes a section that does not fit in the open message
ClosesApart ==
    /\ Closes
    /\ no_split_section.some
    /\ chars_num + no_split_section.size > MSG_LIMIT

\* the text t is longer than MSG_LIMIT and, cut after the last of its first
\* MSG_LIMIT characters that f accepts, again and again, leaves a rest longer
\* than MSG_LIMIT whose first MSG_LIMIT characters f all rejects
RECURSIVE NoCutLeft(_, _)
NoCutLeft(t, f) ==
    /\ Len(t) > MSG_LIMIT
    /\ LET ok == {k \in 1..MSG_LIMIT : t[k] \in f}
       IN  \/ ok = {}
           \/ /\ ok # {}
              /\ LET p == CHOOSE k \in ok : \A j \in ok : j <= k
                 IN  NoCutLeft(SubSeq(t, p + 1, Len(t)), f)

\* C4: a closing call that has to split its section panics when a rest
\* longer than MSG_LIMIT has no character the predicate accepts among its
\* first MSG_LIMIT (so a section longer than MSG_LIMIT with no such character
\* at all always panics); and no message it pushes, before it returns or
\* panics, is longer than MSG_LIMIT
C4_OversizedSectionFails ==
    [][ClosesApart =>
          /\ NoCutLeft(no_split_section.text, last'.f) =>
                 (status' = "panicked" /\ last'.panicked = "unwrap")
          /\ \A i \in (Len(messages) + 1)..Len(messages') :
                 Len(messages'[i]) <= MSG_LIMIT]_vars

\* end_section_with panicked in a later round of its loop: it had cut the
\* section once and found nothing to cut the rest at
C4_Witness ==
    /\ status = "panicked"
    /\ last.op = "end_section_with"
    /\ last.panicked = "unwrap"
    /\ last.taken > MSG_LIMIT
    /\ last.pushed >= 1
    /\ last.f_calls > MSG_LIMIT

\* C5: no call of add_string panics
C5_AddStringNeverFails ==
    ~(last.op = "add_string" /\ status = "panicked")

\* C5, in a release build, where the assertion of line 114 is compiled out
C5_AddStringNeverFailsInRelease ==
    ~(last.op = "add_string" /\ status = "panicked" /\ ~debug_assertions)

\* the text a call of add_string was given
Given == SubSeq(added', Len(added) + 1, Len(added'))

\* C6: a call of add_string that returns, made with no section open and with
\* the counter plus the text's characters over MSG_LIMIT, fills the open
\* message to MSG_LIMIT characters with the text's first characters, pushes
\* one message, the rest of the text, and sets the counter to its length
C6_AddStringSplit ==
    [][(/\ last'.op = "add_string"
        /\ status' = "running"
        /\ ~no_split_section.some
        /\ chars_num + Len(Given) > MSG_LIMIT)
       => LET room == MSG_LIMIT - Len(Last(messages))
              open == Len(messages)
          IN  /\ Len(messages') = open + 1
              /\ \A i \in 1..(open - 1) : messages'[i] = messages[i]
              /\ messages'[open] = Last(messages) \o SubSeq(Given, 1, room)
              /\ Len(messages'[open]) = MSG_LIMIT
              /\ messages'[open + 1] = SubSeq(Given, room + 1, Len(Given))
              /\ chars_num' = Len(Given) - room
              /\ chars_num' = Len(messages'[open + 1])]_vars

\* add_string, given more than MSG_LIMIT characters with a two-byte one among
\* them on a new builder, has split them
C6_Witness ==
    /\ last.op = "add_string"
    /\ last.pushed = 1
    /\ status = "running"
    /\ Len(messages) = 2
    /\ Len(messages[1]) = MSG_LIMIT
    /\ messages[1] \o messages[2] = added
    /\ \E k \in 1..MSG_LIMIT : messages[1][k] = "e"
    /\ chars_num = Len(added) - MSG_LIMIT
    /\ chars_num >= 1

\* C7: build() returns what end_section() and then build() would return: with
\* a section open, the messages with the section's text put in; with none,
\* the messages as they are
C7_BuildClosesSection ==
    [][(last'.op = "build" /\ status' = "built")
       => /\ messages' = build(end_section(Self)).messages
          /\ Concat(messages') = Concat(messages) \o no_split_section.text
          /\ ~no_split_section.some => messages' = messages]_vars

\* build() returned with a section open that held text
C7_Witness ==
    /\ Returned
    /\ last.op = "build"
    /\ last.taken > 0

\* C9: begin_section with a section open changes nothing
C9_BeginSectionOpenNoOp ==
    [][(last'.op = "begin_section" /\ no_split_section.some)
       => /\ UNCHANGED <<messages, chars_num, no_split_section>>
          /\ status' = "running"]_vars

\* begin_section returned and the section holds text: it was open
C9_Witness ==
    /\ last.op = "begin_section"
    /\ no_split_section.some
    /\ no_split_section.size > 0

\* C10: end_section and end_section_with with no section open change nothing
\* and do not call the predicate
C10_EndSectionClosedNoOp ==
    [][(last'.op \in {"end_section", "end_section_with"} /\ ~no_split_section.some)
       => /\ UNCHANGED <<messages, chars_num, no_split_section>>
          /\ status' = "running"
          /\ last'.f_calls = 0]_vars

\* end_section_with was called with no section open, the counter over
\* MSG_LIMIT and a predicate that accepts characters of the messages
C10_Witness ==
    /\ last.op = "end_section_with"
    /\ last.taken = NoneTaken
    /\ chars_num > MSG_LIMIT
    /\ \E i \in 1..Len(messages) : \E k \in 1..Len(messages[i]) :
           messages[i][k] \in last.f

\* the number of the message of ms that holds character pos of the
\* concatenated messages
MessageOf(ms, pos) ==
    CHOOSE i \in 1..Len(ms) :
        /\ Len(Concat(SubSeq(ms, 1, i - 1))) < pos
        /\ pos <= Len(Concat(SubSeq(ms, 1, i)))

\* the lines of a text, each with its line feed, as the pairs of the places
\* of their first and last characters
LinesWithLF(text) ==
    {l \in (1..Len(text)) \X (1..Len(text)) :
        /\ l[1] <= l[2]
        /\ text[l[2]] = "\n"
        /\ \A j \in l[1]..(l[2] - 1) : text[j] # "\n"
        /\ (l[1] = 1 \/ text[l[1] - 1] = "\n")}

\* the text is made of lines that each end with a line feed
LFTerminated(text) == text = <<>> \/ text[Len(text)] = "\n"

\* no line of the text ends with a carriage return before its line feed
NoCrLf(text) == \A k \in 2..Len(text) : ~(text[k - 1] = "\r" /\ text[k] = "\n")

\* add_lines, called with no section open, returned having added the text
\* as it is, with no line of at most MSG_LIMIT characters cut
LinesKept(text) ==
    /\ Concat(messages') = Concat(messages) \o text
    /\ \A l \in LinesWithLF(text) :
          l[2] - l[1] + 1 <= MSG_LIMIT =>
              MessageOf(messages', Len(Concat(messages)) + l[1])
                  = MessageOf(messages', Len(Concat(messages)) + l[2])

AddsLines ==
    /\ last'.op = "add_lines"
    /\ status' = "running"
    /\ ~no_split_section.some
    /\ LFTerminated(last'.lines)

\* C8, as claimed: for every text of lines that end with a line feed
C8_AddLinesAnyText ==
    [][AddsLines => LinesKept(last'.lines)]_vars

\* C8, amended: for every text of lines that end with a line feed and not
\* with a carriage return and a line feed
C8_AddLines ==
    [][(AddsLines /\ NoCrLf(last'.lines)) => LinesKept(last'.lines)]_vars

\* add_lines was given two lines or more, with a carriage return that is kept,
\* and put them in different messages
C8_Witness ==
    /\ last.op = "add_lines"
    /\ status = "running"
    /\ LFTerminated(last.lines)
    /\ NoCrLf(last.lines)
    /\ Cardinality(LinesWithLF(last.lines)) >= 2
    /\ \E k \in 1..Len(last.lines) : last.lines[k] = "\r"
    /\ last.pushed >= 1
    /\ Len(Concat(messages)) > Len(last.lines)

\* every character of x is whitespace
AllWhitespace(x) == \A k \in 1..Len(x) : is_whitespace(x[k])

\* C11: split_trim returns three strings that, concatenated, are the string
\* it was given
C11_TrimRoundTrip ==
    trim.pc # "call" =>
        /\ trim.pc = "returned"
        /\ trim.got.front_trim \o trim.got.text \o trim.got.end_trim = trim.s

\* split_trim returned three strings that are not empty, with two-byte
\* characters at the cuts
C11_Witness ==
    /\ trim.pc = "returned"
    /\ trim.got.front_trim # <<>>
    /\ trim.got.text # <<>>
    /\ trim.got.end_trim # <<>>
    /\ Last(trim.got.front_trim) = "nbsp"
    /\ Last(trim.got.text) = "e"

\* C12: end_trim is the longest suffix of whitespace, front_trim the longest
\* prefix of whitespace of what is before it, text the rest; a string of
\* whitespace only gives empty front_trim and text, and a string with no
\* whitespace at its ends gives empty front_trim and end_trim
C12_TrimDecomposition ==
    trim.pc # "call" =>
        LET s == trim.s
            front == trim.got.front_trim
            text == trim.got.text
            end == trim.got.end_trim
            start == SubSeq(s, 1, Len(s) - Len(end))
        IN  /\ trim.pc = "returned"
            /\ end = SubSeq(s, Len(s) - Len(end) + 1, Len(s))
            /\ AllWhitespace(end)
            /\ start # <<>> => ~is_whitespace(Last(start))
            /\ front = SubSeq(start, 1, Len(front))
            /\ AllWhitespace(front)
            /\ text = SubSeq(start, Len(front) + 1, Len(start))
            /\ text # <<>> => (~is_whitespace(Head(text)) /\ ~is_whitespace(Last(text)))
            /\ AllWhitespace(s) => (front = <<>> /\ text = <<>> /\ end = s)
            /\ (s # <<>> /\ ~is_whitespace(Head(s)) /\ ~is_whitespace(Last(s)))
                   => (front = <<>> /\ text = s /\ end = <<>>)

\* split_trim returned for a string with whitespace, two-byte whitespace
\* first, at both ends and inside
C12_Witness ==
    /\ trim.pc = "returned"
    /\ Len(trim.got.front_trim) >= 1
    /\ Head(trim.s) = "nbsp"
    /\ Len(trim.got.end_trim) >= 1
    /\ \E k \in 1..Len(trim.got.text) : is_whitespace(trim.got.text[k])

\* the characters of the last message
LastLen == Len(Last(messages))

\* C13: after calls of add_string, begin_section and end_section that
\* returned, when no section is open, chars_num is the number of characters
\* of the last message
C13_CounterInvariant ==
    (status = "running" /\ ~no_split_section.some) => chars_num = LastLen

\* C14: a closing call that returns, made with a section that does not fit
\* in the open message, leaves every message that was there as it was, the
\* open one too, and appends messages that together are the section's text;
\* a section of at most MSG_LIMIT characters gets one new message, which is
\* its text
C14_NonFittingSection ==
    [][(ClosesApart /\ status' # "panicked") =>
          /\ Len(messages') > Len(messages)
          /\ SubSeq(messages', 1, Len(messages)) = messages
          /\ Concat(SubSeq(messages', Len(messages) + 1, Len(messages')))
                 = no_split_section.text
          /\ no_split_section.size <= MSG_LIMIT =>
                 /\ Len(messages') = Len(messages) + 1
                 /\ Last(messages') = no_split_section.text]_vars

\* end_section has pushed a section of MSG_LIMIT characters as the second
\* message, though the first had room for one of them
C14_Witness ==
    /\ last.op = "end_section"
    /\ status = "running"
    /\ last.taken = MSG_LIMIT
    /\ last.pushed = 1
    /\ Len(messages) = 2
    /\ Len(messages[1]) = MSG_LIMIT - 1
    /\ Len(messages[2]) = MSG_LIMIT

\* C15: a call of add_string made while a section is open returns, appends
\* its text, of any length, to the section's text and adds the number of its
\* characters to the section's size; the messages and chars_num stay as they
\* were
C15_AddStringInSection ==
    [][(last'.op = "add_string" /\ no_split_section.some) =>
          /\ status' = "running"
          /\ no_split_section'.some
          /\ no_split_section'.text = no_split_section.text \o Given
          /\ no_split_section'.size = no_split_section.size + Len(Given)
          /\ messages' = messages
          /\ chars_num' = chars_num]_vars

\* add_string has added more than MSG_LIMIT characters, a two-byte one among
\* them, to a section that was not empty, with a message open that is not
\* empty
C15_Witness ==
    /\ last.op = "add_string"
    /\ status = "running"
    /\ last.taken >= 1
    /\ no_split_section.some
    /\ no_split_section.size - last.taken > MSG_LIMIT
    /\ \E k \in (last.taken + 1)..no_split_section.size : no_split_section.text[k] = "e"
    /\ Last(messages) # <<>>

\* the messages a call appended
Pushed == SubSeq(messages', Len(messages) + 1, Len(messages'))

\* the messages the splitting loop of a closing call pushed: all that the
\* call appended, but the last when the call returned (line 191)
Cut == IF status' = "panicked" THEN Pushed ELSE SubSeq(Pushed, 1, Len(Pushed) - 1)

\* C16: each message the splitting loop of a closing call pushes is the
\* longest prefix of the rest of the section's text, which is longer than
\* MSG_LIMIT, that has at most MSG_LIMIT characters and ends with a character
\* the predicate accepts: it has from 1 to MSG_LIMIT characters and leaves a
\* rest that is not empty
C16_CutPosition ==
    [][ClosesApart =>
          \A i \in 1..Len(Cut) :
              LET text == no_split_section.text
                  rest == SubSeq(text, Len(Concat(SubSeq(Cut, 1, i - 1))) + 1, Len(text))
                  n == Len(Cut[i])
              IN  /\ Len(rest) > MSG_LIMIT
                  /\ n >= 1
                  /\ n <= MSG_LIMIT
                  /\ Cut[i] = SubSeq(rest, 1, n)
                  /\ rest[n] \in last'.f
                  /\ \A k \in (n + 1)..MSG_LIMIT : rest[k] \notin last'.f
                  /\ Len(rest) - n >= 1]_vars

\* end_section_with has cut a section twice: first after one character,
\* which the predicate accepts while it rejects the next, then after
\* MSG_LIMIT characters
C16_Witness ==
    /\ last.op = "end_section_with"
    /\ status = "running"
    /\ last.pushed = 3
    /\ Len(messages[Len(messages) - 2]) = 1
    /\ messages[Len(messages) - 1][1] \notin last.f
    /\ Len(messages[Len(messages) - 1]) = MSG_LIMIT
    /\ Last(messages) # <<>>

\* C17: between calls chars_num is never less than the number of characters
\* of the last message; a closing call that returns, made with a section
\* that does not fit in the open message, leaves chars_num at the section's
\* size, which is more than the last message has exactly when the call
\* pushed several messages
C17_CounterNeverUnderestimates ==
    [][/\ status # "panicked" => chars_num >= LastLen
       /\ status' # "panicked" => chars_num' >= Len(Last(messages'))
       /\ (ClosesApart /\ status' # "panicked") =>
              /\ chars_num' = no_split_section.size
              /\ (chars_num' > Len(Last(messages'))) <=> (Len(Pushed) >= 2)]_vars

\* end_section has cut a section in several messages and left chars_num
\* over MSG_LIMIT, with fewer characters in the last message
C17_Witness ==
    /\ last.op = "end_section"
    /\ status = "running"
    /\ last.taken > MSG_LIMIT
    /\ last.pushed >= 2
    /\ chars_num = last.taken
    /\ chars_num > LastLen
    /\ LastLen >= 1

\* C18: the assertion of line 114 never fails: in add_string's split branch
\* the position s that comes with the character to split at is MSG_LIMIT
C18_SplitAssertionHolds ==
    ~(last.op = "add_string" /\ last.panicked = "assert")

\* C19: no call, whether it returns or panics, changes or removes a message
\* other than the last: the number of messages never decreases and is never
\* less than 1, and a message that has another after it stays as it is
C19_ClosedMessagesFinal ==
    [][/\ Len(messages) >= 1
       /\ Len(messages') >= Len(messages)
       /\ \A i \in 1..(Len(messages) - 1) : messages'[i] = messages[i]]_vars

\* add_string has filled the last of two messages and pushed a third
C19_Witness ==
    /\ last.op = "add_string"
    /\ status = "running"
    /\ last.pushed = 1
    /\ Len(messages) >= 3
    /\ Len(messages[Len(messages) - 1]) = MSG_LIMIT
    /\ messages[1] # <<>>

\* C20: after calls that returned, every message but the first has a
\* character: no call, the closing of an empty section neither, appends an
\* empty message
C20_OnlyFirstCanBeEmpty ==
    status = "running" => \A i \in 2..Len(messages) : messages[i] # <<>>

\* C20, for builders whose add_string was never given more than MSG_LIMIT
\* characters
C20_OnlyFirstCanBeEmptyNoOversize ==
    (status = "running" /\ ~oversize) => \A i \in 2..Len(messages) : messages[i] # <<>>

====
